---- MODULE Spec2Model ----
(***************************************************************************)
(* Maximum clique solvers of the repository: the exact branch-and-bound    *)
(* solver CliSAT (src/algorithms/clisat_exact.py) and the GRASP            *)
(* metaheuristic (src/algorithms/grasp_heuristic.py), both working on a    *)
(* networkx graph.                                                         *)
(*                                                                         *)
(* A graph is a record [n, order, E]: the vertices are the labels 1..n,    *)
(* order is the sequence in which the nodes were inserted (the iteration   *)
(* order of graph.nodes()), E the set of edges {u, v}.                     *)
(***************************************************************************)
EXTENDS Integers, Sequences, FiniteSets, TLC

VARIABLES
    graph,             \* self.graph, shared read-only by the solvers
    xpc,               \* position of the CliSAT instance: off/new/root/search/done
    max_clique,        \* CliSAT.max_clique
    lb,                \* CliSAT.lb
    stats,             \* CliSAT.stats
    coloring,          \* CliSAT.coloring: reference colourings keyed by id(G)
    initial_ordering,  \* CliSAT.initial_ordering
    ri,                \* loop variable i of the root loop of solve()
    stack,             \* recursion frames of find_max_clique, innermost last
    expired,           \* the running solve has passed its time limit
    xresult,           \* what CliSAT.solve() returned
    warm,              \* the clique installed by the caller before solve()
    earlier,           \* what the solve of an earlier CliSAT instance returned
    params,            \* GRASPParameters shared by the GRASP instances
    grasp,             \* the GRASPMaximumClique instances
    rng,               \* state of the process-global generator of module random
    active,            \* which solve() call is executing (one thread)
    trace,             \* the constructor and solve calls made so far
    sat                \* the CliSATSolver instance of clisat_algorithm.py

vars == <<graph, xpc, max_clique, lb, stats, coloring, initial_ordering, ri,
          stack, expired, xresult, warm, earlier, params, grasp, rng, active,
          trace, sat>>

xvars == <<xpc, max_clique, lb, stats, coloring, initial_ordering, ri, stack,
           xresult, warm, earlier>>

----------------------------------------------------------------------------
(* Bounds of the model *)

NumV == 4          \* vertices of the exhaustively enumerated graphs
MaxSeed == 1       \* seeds 0..MaxSeed
MaxIter == 2       \* largest max_iterations
RngMod == 8        \* number of states of the modelled generator
AlphaDen == 2      \* alpha ranges over 0, 1/AlphaDen, ..., 1
MaxIntensity == 2  \* largest local_search_intensity
MaxListLen == 3    \* longest list handed to the clique validators

----------------------------------------------------------------------------
(* Lists *)

SeqToSet(s) == {s[i] : i \in DOMAIN s}

Contains(s, x) == \E i \in DOMAIN s : s[i] = x

Remove(s, x) == SelectSeq(s, LAMBDA y : y # x)

RECURSIVE SortAsc(_)
SortAsc(S) ==
    IF S = {} THEN <<>>
    ELSE LET m == CHOOSE x \in S : \A y \in S : x <= y
         IN  <<m>> \o SortAsc(S \ {m})

RECURSIVE Flatten(_)
Flatten(ss) == IF ss = <<>> THEN <<>> ELSE Head(ss) \o Flatten(Tail(ss))

Pos(s, x) == CHOOSE i \in DOMAIN s : s[i] = x

----------------------------------------------------------------------------
(* The graph *)

V == 1..graph.n

has_edge(u, v) == {u, v} \in graph.E /\ u # v

neighbors(v) == {u \in V : has_edge(u, v)}

degree(v) == Cardinality(neighbors(v))

\* iteration order of the nodes of graph.subgraph(S): the view iterates the
\* node set of its filter when that is less than half of the graph, and the
\* node dictionary of the graph otherwise
Nodes(S) ==
    IF 2 * Cardinality(S) < graph.n
    THEN SortAsc(S)
    ELSE SelectSeq(graph.order, LAMBDA v : v \in S)

\* self.node_to_index: rank of the label among the sorted labels, from 0
node_to_index(v) == Cardinality({u \in V : u < v})

\* self.adj_matrix[i, j]: rows and columns follow list(graph.nodes())
adj_matrix(i, j) ==
    IF has_edge(graph.order[i + 1], graph.order[j + 1]) THEN 1 ELSE 0

\* a validator that looks at neighbouring positions of the list only
ConsecutivePairsOnly(clique) ==
    IF Len(clique) <= 1 THEN TRUE
    ELSE \A i \in 1..(Len(clique) - 1) : has_edge(clique[i], clique[i + 1])

\* CliSAT.verify_clique
verify_clique(clique) ==
    IF Len(clique) <= 1 THEN TRUE
    ELSE \A i \in DOMAIN clique : \A j \in DOMAIN clique :
            i < j => has_edge(clique[i], clique[j])

\* AlgorithmInterface.validate_clique
validate_clique(clique) ==
    IF Len(clique) <= 1 THEN TRUE
    ELSE IF \E i \in DOMAIN clique : clique[i] \notin V THEN FALSE
    ELSE \A i \in DOMAIN clique : \A j \in DOMAIN clique :
            i < j => has_edge(clique[i], clique[j])

----------------------------------------------------------------------------
(* CliSAT: colouring and Boolean reasoning *)

\* the inner for loop of iseq_coloring: one pass over the uncoloured
\* vertices, collecting those with no neighbour in the class being built
RECURSIVE IndependentScan(_, _)
IndependentScan(remaining, independent_set) ==
    IF remaining = <<>> THEN independent_set
    ELSE LET v == Head(remaining)
         IN  IF \A i \in DOMAIN independent_set :
                    ~has_edge(v, independent_set[i])
             THEN IndependentScan(Tail(remaining), Append(independent_set, v))
             ELSE IndependentScan(Tail(remaining), independent_set)

\* the while loop of iseq_coloring
RECURSIVE IseqLoop(_, _, _)
IseqLoop(col, uncolored, k) ==
    IF Len(col) < k /\ uncolored # <<>>
    THEN LET independent_set == IndependentScan(uncolored, <<>>)
         IN  IF independent_set # <<>>
             THEN IseqLoop(Append(col, independent_set),
                           SelectSeq(uncolored,
                                     LAMBDA v : ~Contains(independent_set, v)),
                           k)
             ELSE col
    ELSE col

\* the colouring with one class more than asked for
IseqOneColourMore(G, k) == IseqLoop(<<>>, Nodes(G), k + 1)

iseq_coloring(G, k) == IseqLoop(<<>>, Nodes(G), k)

\* vertex_to_var of build_pmax_sat: variables numbered from 1 in the order of
\* first appearance in the colouring
vertex_to_var(col, v) ==
    LET flat  == Flatten(col)
        first == Pos(flat, v)
    IN  Cardinality({flat[i] : i \in 1..first})

\* a CNF that forbids two non-adjacent vertices of any two classes, not
\* only of one class
PmaxSatAllPairs(col) ==
    LET flat == Flatten(col)
    IN  {{-vertex_to_var(col, flat[i]), -vertex_to_var(col, flat[j])} :
            <<i, j>> \in {t \in (DOMAIN flat) \X (DOMAIN flat) :
                            /\ flat[t[1]] # flat[t[2]]
                            /\ ~has_edge(flat[t[1]], flat[t[2]])}}
        \cup {{vertex_to_var(col, col[c][i]) : i \in DOMAIN col[c]} :
                 c \in {d \in DOMAIN col : col[d] # <<>>}}

\* the CNF of build_pmax_sat as a set of clauses, a clause being a set of
\* non-zero integers
build_pmax_sat(col) ==
    LET clique_clauses ==
            {{-vertex_to_var(col, col[c][i]), -vertex_to_var(col, col[c][j])} :
                <<c, i, j>> \in
                    {t \in (DOMAIN col) \X (1..graph.n) \X (1..graph.n) :
                        /\ t[2] < t[3]
                        /\ t[3] <= Len(col[t[1]])
                        /\ ~has_edge(col[t[1]][t[2]], col[t[1]][t[3]])}}
        class_clauses ==
            {{vertex_to_var(col, col[c][i]) : i \in DOMAIN col[c]} :
                c \in {d \in DOMAIN col : col[d] # <<>>}}
    IN  clique_clauses \cup class_clauses

\* Glucose3.solve(): is there an assignment satisfying every clause
SatSolve(cnf) ==
    LET lits    == UNION cnf
        nvars   == Cardinality({IF l < 0 THEN -l ELSE l : l \in lits})
    IN  \E T \in SUBSET (1..nvars) :
            \A cl \in cnf :
                \E l \in cl : IF l > 0 THEN l \in T ELSE (-l) \notin T

is_failed_literal(v, col) == ~SatSolve(build_pmax_sat(col \o <<<<v>>>>))

\* satcol: [P, B, sat_calls]; sat_calls is the number of is_failed_literal
\* calls made
satcol(G, P_c) ==
    LET P0 == Flatten(P_c)
        B0 == SelectSeq(Nodes(G), LAMBDA v : ~Contains(P0, v))
        failed == SelectSeq(B0, LAMBDA v : is_failed_literal(v, P_c))
    IN  [P |-> P0 \o failed,
         B |-> SelectSeq(B0, LAMBDA v : ~Contains(failed, v)),
         sat_calls |-> Len(B0)]

\* the for loop of filtsat over the vertices of B
RECURSIVE FiltsatLoop(_, _, _, _)
FiltsatLoop(todo, P_final, B_final, calls) ==
    IF todo = <<>> THEN [P |-> P_final, B |-> B_final, sat_calls |-> calls]
    ELSE LET v   == Head(todo)
             col == iseq_coloring(SeqToSet(P_final) \cup {v}, Len(P_final) + 1)
         IN  IF is_failed_literal(v, col)
             THEN FiltsatLoop(Tail(todo), Append(P_final, v),
                              Remove(B_final, v), calls + 1)
             ELSE FiltsatLoop(Tail(todo), P_final, B_final, calls + 1)

filtsat(G, P, B) == FiltsatLoop(B, P, B, 0)

\* filtcol, given the reference colouring it works with
filtcol(G, reference_coloring) ==
    LET all_colored == SeqToSet(Flatten(reference_coloring))
    IN  SelectSeq(Nodes(G), LAMBDA v : v \in all_colored)

\* the colouring filtcol computes when the cache has none
NewReference(G) ==
    iseq_coloring(G, IF Cardinality(G) < lb THEN Cardinality(G) ELSE lb)

filter_phase(G, reference_coloring) ==
    LET P_filt == filtcol(G, reference_coloring)
        B_filt == SelectSeq(Nodes(G), LAMBDA v : ~Contains(P_filt, v))
    IN  filtsat(G, P_filt, B_filt)

is_k_partite(G, k) ==
    IF Cardinality(G) = 0 THEN TRUE
    ELSE LET col == iseq_coloring(G, k)
         IN  Len(Flatten(col)) = Cardinality(G) /\ Len(col) <= k

\* the colouring bound taken one colour too large
PrunedWithExtraColour(G_hat, K_hat, lbarg) ==
    satcol(G_hat, iseq_coloring(G_hat, lbarg - Len(K_hat) + 1))

compute_pruned_and_branching_sets(G_hat, K_hat, lbarg) ==
    satcol(G_hat, iseq_coloring(G_hat, lbarg - Len(K_hat)))

----------------------------------------------------------------------------
(* CliSAT: vertex ordering and the greedy initial clique *)

\* the first components of a list of tuples
RECURSIVE Firsts(_)
Firsts(pairs) ==
    IF pairs = <<>> THEN <<>> ELSE <<Head(pairs)[1]>> \o Firsts(Tail(pairs))

\* a stable sort by decreasing key of the pairs (element, key): each pair is
\* inserted after the pairs whose key is at least its own
RECURSIVE SortByKeyDesc(_, _)
SortByKeyDesc(done, todo) ==
    IF todo = <<>> THEN done
    ELSE LET pair == Head(todo)
             k    == Cardinality({i \in DOMAIN done : done[i][2] >= pair[2]})
         IN  SortByKeyDesc(SubSeq(done, 1, k) \o <<pair>>
                               \o SubSeq(done, k + 1, Len(done)),
                           Tail(todo))

\* sort_key of color_sort is (-degree, -density); the density is the
\* fraction density_num / density_den
neighbor_edges(v) == Cardinality({e \in graph.E : e \subseteq neighbors(v)})

max_edges(v) == (degree(v) * (degree(v) - 1)) \div 2

density_num(v) == IF max_edges(v) > 0 THEN neighbor_edges(v) ELSE 0

density_den(v) == IF max_edges(v) > 0 THEN max_edges(v) ELSE 1

\* the tuples (v, degree, density_num, density_den) of the vertices of a list
RECURSIVE SortKeys(_)
SortKeys(vertices) ==
    IF vertices = <<>> THEN <<>>
    ELSE LET v == Head(vertices)
         IN  <<<<v, degree(v), density_num(v), density_den(v)>>>>
             \o SortKeys(Tail(vertices))

\* sort_key(a) <= sort_key(b) for two such tuples
sort_key_leq(a, b) ==
    \/ a[2] > b[2]
    \/ a[2] = b[2] /\ a[3] * b[4] >= b[3] * a[4]

\* vertices.sort(key=sort_key): stable, by increasing key
RECURSIVE SortBySortKey(_, _)
SortBySortKey(done, todo) ==
    IF todo = <<>> THEN done
    ELSE LET t == Head(todo)
             k == Cardinality({i \in DOMAIN done : sort_key_leq(done[i], t)})
         IN  SortBySortKey(SubSeq(done, 1, k) \o <<t>>
                               \o SubSeq(done, k + 1, Len(done)),
                           Tail(todo))

color_sort == Firsts(SortBySortKey(<<>>, SortKeys(graph.order)))

\* the pairs (x, degree) of a list of vertices
RECURSIVE DegreeKeys(_)
DegreeKeys(vertices) ==
    IF vertices = <<>> THEN <<>>
    ELSE <<<<Head(vertices), degree(Head(vertices))>>>>
         \o DegreeKeys(Tail(vertices))

\* the pairs (x, key) of the re-sort of greedy_initial_solution: the key
\* (x in common_neighbors, degree) as one number
RECURSIVE CommonKeys(_, _)
CommonKeys(vertices, common_neighbors) ==
    IF vertices = <<>> THEN <<>>
    ELSE LET x == Head(vertices)
         IN  <<<<x, (IF x \in common_neighbors THEN graph.n + 1 ELSE 0)
                      + degree(x)>>>>
             \o CommonKeys(Tail(vertices), common_neighbors)

\* the for loop of greedy_initial_solution over the list the loop was started
\* on; vertices is the name the loop body rebinds
RECURSIVE GreedyScan(_, _, _)
GreedyScan(todo, clique, vertices) ==
    IF todo = <<>> THEN [clique |-> clique, vertices |-> vertices]
    ELSE LET v == Head(todo)
         IN  IF \A i \in DOMAIN clique : has_edge(v, clique[i])
             THEN LET clique2 == Append(clique, v)
                      common_neighbors ==
                          {x \in V : \A i \in DOMAIN clique2 :
                                        has_edge(x, clique2[i])}
                      remaining ==
                          SelectSeq(vertices, LAMBDA x : ~Contains(clique2, x))
                      resorted ==
                          Firsts(SortByKeyDesc(<<>>,
                                    CommonKeys(remaining, common_neighbors)))
                  IN  IF Len(clique2) > 3
                      THEN GreedyScan(Tail(todo), clique2, clique2 \o resorted)
                      ELSE GreedyScan(Tail(todo), clique2, vertices)
             ELSE GreedyScan(Tail(todo), clique, vertices)

\* sorted(graph.nodes(), key=degree, reverse=True)
ByDegree == Firsts(SortByKeyDesc(<<>>, DegreeKeys(graph.order)))

greedy_initial_solution == GreedyScan(ByDegree, <<>>, ByDegree).clique

----------------------------------------------------------------------------
(* Inputs *)

Pairs(n) == {{u, v} : u, v \in 1..n} \ {{u} : u \in 1..n}

Sorted(n) == [i \in 1..n |-> i]

Reversed(n) == [i \in 1..n |-> n + 1 - i]

\* G2 of create_test_graphs: a triangle, a K4 and one linking edge, the nodes
\* inserted by add_edge in increasing order
two_cliques ==
    [n |-> 7, order |-> Sorted(7),
     E |-> {{1, 2}, {1, 3}, {2, 3}, {3, 4},
            {4, 5}, {4, 6}, {4, 7}, {5, 6}, {5, 7}, {6, 7}}]

\* a triangle {1, 2, 4} whose vertex 1 has a neighbour 5 of degree 2
TrapEdges == {{1, 2}, {1, 4}, {2, 4}, {1, 5}, {3, 5}}

FixedGraphs ==
    {two_cliques,
     [n |-> 5, order |-> Sorted(5), E |-> TrapEdges],
     [n |-> 5, order |-> Reversed(5), E |-> TrapEdges]}

Graphs ==
    {[n |-> NumV, order |-> o, E |-> e] :
        o \in {Sorted(NumV), Reversed(NumV)}, e \in SUBSET Pairs(NumV)}
    \cup FixedGraphs

\* a K4 {4, 5, 6, 7} whose vertex 6 has a neighbour 1 of degree 3, the nodes
\* inserted in increasing order
rank_trap ==
    [n |-> 7, order |-> Sorted(7),
     E |-> {{1, 2}, {1, 3}, {1, 6},
            {4, 5}, {4, 6}, {4, 7}, {5, 6}, {5, 7}, {6, 7}}]

\* two triangles {1, 2, 4} and {3, 5, 6} joined by the edge {1, 3}, the nodes
\* inserted in increasing order
cache_trap ==
    [n |-> 6, order |-> Sorted(6),
     E |-> {{1, 2}, {1, 3}, {1, 4}, {2, 4}, {3, 5}, {3, 6}, {5, 6}}]

\* a K5 {1, 2, 3, 4, 6} and a vertex 5 adjacent to 1, 2, 3 and 7, the nodes
\* inserted in increasing order
resort_case ==
    [n |-> 7, order |-> Sorted(7),
     E |-> {{1, 2}, {1, 3}, {1, 4}, {2, 3}, {2, 4}, {3, 4},
            {1, 6}, {2, 6}, {3, 6}, {4, 6},
            {1, 5}, {2, 5}, {3, 5}, {5, 7}}]

\* the graphs handed to the exact solver alone
ExactGraphs == Graphs \cup {rank_trap, cache_trap, resort_case}

----------------------------------------------------------------------------
(* CliSAT: the solve *)

ZeroStats ==
    [nodes_explored |-> 0, sat_calls |-> 0, pruned_by_bound |-> 0,
     filter_phase_calls |-> 0, satcol_calls |-> 0]

\* solve() has not returned: timeout tells that the root loop was left by
\* its time check, expired that the time limit passed before the return
NoResult ==
    [clique |-> <<>>, size |-> 0, stats |-> ZeroStats, timeout |-> FALSE,
     expired |-> FALSE]

Frame(G, K, lbarg) ==
    [G |-> G, K |-> K, lbarg |-> lbarg, stage |-> "entry",
     P |-> <<>>, B |-> <<>>, bi |-> 0, cid |-> 0]

Top == stack[Len(stack)]

SetTop(f) == [stack EXCEPT ![Len(stack)] = f]

\* return from find_max_clique: back in the caller's loop, or in the root
\* loop of solve(), which goes on to its next i
Pop ==
    /\ stack' = SubSeq(stack, 1, Len(stack) - 1)
    /\ IF Len(stack) = 1
       THEN xpc' = "root" /\ ri' = ri + 1
       ELSE UNCHANGED <<xpc, ri>>

\* a time check that never sees the limit passed
TimeNeverExceeded == FALSE

\* CliSAT._time_exceeded
_time_exceeded == expired

\* the time limit of the running solve is passed
Expire ==
    /\ active # <<"none">>
    /\ ~expired
    /\ expired' = TRUE
    /\ UNCHANGED <<sat, graph, xvars, params, grasp, rng, active, trace>>

\* the caller installs a clique as the starting incumbent before solve()
WarmStart ==
    /\ xpc = "new"
    /\ warm = <<>>
    /\ \E K \in SUBSET V :
          /\ K # {}
          /\ verify_clique(SortAsc(K))
          /\ warm' = SortAsc(K)
          /\ max_clique' = SortAsc(K)
          /\ lb' = Cardinality(K)
    /\ UNCHANGED <<sat, graph, earlier, xpc, stats, coloring, initial_ordering, ri, stack,
                   expired, xresult, params, grasp, rng, active, trace>>

\* CliSAT.__init__ on the same graph, once the solve of the first instance
\* has returned: the new instance starts with its own empty fields
CliSATNew ==
    /\ xpc = "done"
    /\ active = <<"none">>
    /\ earlier = <<>>
    /\ earlier' = <<xresult>>
    /\ xpc' = "new"
    /\ max_clique' = <<>>
    /\ lb' = 0
    /\ stats' = ZeroStats
    /\ coloring' = <<>>
    /\ initial_ordering' = <<>>
    /\ ri' = 0
    /\ stack' = <<>>
    /\ xresult' = NoResult
    /\ warm' = <<>>
    /\ trace' = Append(trace, <<"new", 0>>)
    /\ UNCHANGED <<sat, graph, expired, params, grasp, rng, active>>

\* solve() up to the root loop
SolveStart ==
    /\ xpc = "new"
    /\ active = <<"none">>
    /\ active' = <<"exact">>
    /\ expired' = FALSE
    /\ max_clique' = greedy_initial_solution
    /\ lb' = Len(greedy_initial_solution)
    /\ initial_ordering' = color_sort
    /\ ri' = Len(greedy_initial_solution)
    /\ xpc' = "root"
    /\ trace' = Append(trace, <<"solve", 0>>)
    /\ UNCHANGED <<sat, graph, earlier, stats, coloring, stack, xresult, warm, params,
                   grasp, rng>>

\* one iteration of the root loop of solve()
RootIter ==
    /\ xpc = "root"
    /\ ri < graph.n
    /\ ~_time_exceeded
    /\ LET vi    == initial_ordering[ri + 1]
           V_hat == SelectSeq(SubSeq(initial_ordering, 1, ri),
                       LAMBDA v : adj_matrix(node_to_index(vi),
                                             node_to_index(v)) = 1)
       IN  IF V_hat = <<>>
           THEN ri' = ri + 1 /\ UNCHANGED <<xpc, stack>>
           ELSE /\ stack' = <<Frame(SeqToSet(V_hat), <<vi>>, lb)>>
                /\ xpc' = "search"
                /\ ri' = ri
    /\ UNCHANGED <<sat, graph, earlier, max_clique, lb, stats, coloring, initial_ordering,
                   expired, xresult, warm, params, grasp, rng, active, trace>>

\* the end of solve(): the root loop is over or left by the time check
SolveReturn ==
    /\ xpc = "root"
    /\ ri >= graph.n \/ _time_exceeded
    /\ xpc' = "done"
    /\ xresult' = [clique |-> max_clique, size |-> lb, stats |-> stats,
                   timeout |-> ri < graph.n, expired |-> expired]
    /\ active' = <<"none">>
    /\ UNCHANGED <<sat, graph, earlier, max_clique, lb, stats, coloring, initial_ordering,
                   ri, stack, expired, warm, params, grasp, rng, trace>>

\* find_max_clique from its entry to the branch loop
Enter ==
    /\ xpc = "search"
    /\ Top.stage = "entry"
    /\ LET f  == Top
           st == [stats EXCEPT !.nodes_explored = @ + 1]
       IN  IF _time_exceeded
           THEN /\ stats' = st
                /\ Pop
                /\ UNCHANGED <<max_clique, lb>>
           ELSE LET better == Len(f.K) > lb
                    pb == compute_pruned_and_branching_sets(f.G, f.K, f.lbarg)
                    st2 == [st EXCEPT !.sat_calls = @ + pb.sat_calls]
                IN  /\ lb' = IF better THEN Len(f.K) ELSE lb
                    /\ max_clique' = IF better THEN f.K ELSE max_clique
                    /\ IF pb.B = <<>>
                       THEN /\ stats' = [st2 EXCEPT !.pruned_by_bound = @ + 1]
                            /\ Pop
                       ELSE /\ stats' = st2
                            /\ stack' = SetTop([f EXCEPT !.stage = "loop",
                                                         !.P = pb.P,
                                                         !.B = pb.B,
                                                         !.bi = 1])
                            /\ UNCHANGED <<xpc, ri>>
    /\ UNCHANGED <<sat, graph, earlier, coloring, initial_ordering, expired, xresult, warm,
                   params, grasp, rng, active, trace>>

\* a candidate set that keeps the branching vertex with its neighbours
VChildWithBranchVertex(f, b) ==
    SelectSeq(f.P, LAMBDA v : has_edge(b, v))
    \o SelectSeq(f.B, LAMBDA v : v = b \/ (has_edge(b, v) /\ v < b))

\* the candidate set of the child of b
V_child(f, b) ==
    SelectSeq(f.P, LAMBDA v : has_edge(b, v))
    \o SelectSeq(f.B, LAMBDA v : v # b /\ has_edge(b, v) /\ v < b)

\* identity keys of the views still bound to G_child in some frame
LiveKeys == {stack[j].cid : j \in DOMAIN stack}

\* one iteration of the branch loop of find_max_clique
Branch ==
    /\ xpc = "search"
    /\ Top.stage = "loop"
    /\ Top.bi <= Len(Top.B)
    /\ ~_time_exceeded
    /\ LET f   == Top
           b   == f.B[f.bi]
           Vc  == V_child(f, b)
           G_child == SeqToSet(Vc)
           nxt == [f EXCEPT !.bi = @ + 1]
       IN  IF Vc = <<>>
           THEN \* leaf
                /\ lb' = IF Len(f.K) + 1 > lb THEN Len(f.K) + 1 ELSE lb
                /\ max_clique' = IF Len(f.K) + 1 > lb
                                 THEN Append(f.K, b) ELSE max_clique
                /\ stack' = SetTop(nxt)
                /\ UNCHANGED <<stats, coloring>>
           ELSE IF is_k_partite(G_child, lb - Len(f.K))
           THEN \* Filter Phase; id(G_child) is a key of the cache that no
                \* live view holds, or an identity the cache has not seen (0)
                \E key \in {0} \cup ((DOMAIN coloring) \ LiveKeys) :
                   LET hit == key # 0 /\ coloring[key] # <<>>
                       ref == IF hit THEN coloring[key]
                                     ELSE NewReference(G_child)
                       cid == IF key = 0 THEN Len(coloring) + 1 ELSE key
                       pb  == filter_phase(G_child, ref)
                       st  == [stats EXCEPT !.filter_phase_calls = @ + 1,
                                            !.sat_calls = @ + pb.sat_calls]
                       me  == [nxt EXCEPT !.cid = cid]
                   IN  /\ coloring' = IF key = 0 THEN Append(coloring, ref)
                                      ELSE [coloring EXCEPT ![key] = ref]
                       /\ IF pb.B # <<>>
                          THEN /\ stack' = Append(SetTop(me),
                                                  Frame(G_child, Append(f.K, b), lb))
                               /\ stats' = st
                          ELSE /\ stack' = SetTop(me)
                               /\ stats' = [st EXCEPT !.pruned_by_bound = @ + 1]
                       /\ UNCHANGED <<lb, max_clique>>
           ELSE \* SATCOL
                LET pb == satcol(G_child,
                                 iseq_coloring(G_child, lb - Len(f.K)))
                    st == [stats EXCEPT !.satcol_calls = @ + 1,
                                        !.sat_calls = @ + pb.sat_calls]
                    me == [nxt EXCEPT !.cid = 0]
                IN  /\ IF pb.B # <<>>
                       THEN /\ stack' = Append(SetTop(me),
                                               Frame(G_child, Append(f.K, b), lb))
                            /\ stats' = st
                       ELSE /\ stack' = SetTop(me)
                            /\ stats' = [st EXCEPT !.pruned_by_bound = @ + 1]
                    /\ UNCHANGED <<lb, max_clique, coloring>>
    /\ UNCHANGED <<sat, graph, earlier, xpc, initial_ordering, ri, expired, xresult, warm,
                   params, grasp, rng, active, trace>>

\* the branch loop ends, or is left by the time check
Return ==
    /\ xpc = "search"
    /\ Top.stage = "loop"
    /\ Top.bi > Len(Top.B) \/ _time_exceeded
    /\ Pop
    /\ UNCHANGED <<sat, graph, earlier, max_clique, lb, stats, coloring, initial_ordering,
                   expired, xresult, warm, params, grasp, rng, active, trace>>

\* the number of is_failed_literal calls the step at the top frame is about
\* to make: those of compute_pruned_and_branching_sets at the entry of
\* find_max_clique, those of satcol or filtsat for the child in the branch loop
PendingSatCalls ==
    IF xpc # "search" \/ _time_exceeded THEN {0}
    ELSE IF Top.stage = "entry"
    THEN {compute_pruned_and_branching_sets(Top.G, Top.K, Top.lbarg).sat_calls}
    ELSE IF Top.bi > Len(Top.B) THEN {0}
    ELSE LET Vc == V_child(Top, Top.B[Top.bi])
             G_child == SeqToSet(Vc)
         IN  IF Vc = <<>> THEN {0}
             ELSE IF is_k_partite(G_child, lb - Len(Top.K))
             THEN {filter_phase(G_child,
                                IF key # 0 /\ coloring[key] # <<>>
                                THEN coloring[key]
                                ELSE NewReference(G_child)).sat_calls :
                      key \in {0} \cup ((DOMAIN coloring) \ LiveKeys)}
             ELSE {satcol(G_child,
                          iseq_coloring(G_child, lb - Len(Top.K))).sat_calls}

\* Glucose3 raises inside one of the is_failed_literal calls of the step:
\* nothing between the solver and the caller of solve() handles an exception,
\* so the frames of find_max_clique and solve() itself are left by it
SatRaise ==
    /\ xpc = "search"
    /\ \E n \in PendingSatCalls : \E k \in 1..n :
          stats' = [stats EXCEPT
                       !.sat_calls = @ + k,
                       !.nodes_explored =
                           IF Top.stage = "entry" THEN @ + 1 ELSE @]
    /\ lb' = IF Top.stage = "entry" /\ Len(Top.K) > lb THEN Len(Top.K) ELSE lb
    /\ max_clique' = IF Top.stage = "entry" /\ Len(Top.K) > lb
                     THEN Top.K ELSE max_clique
    /\ stack' = <<>>
    /\ xpc' = "raised"
    /\ active' = <<"none">>
    /\ UNCHANGED <<sat, graph, earlier, coloring, initial_ordering, ri, expired,
                   xresult, warm, params, grasp, rng, trace>>

ExactStep ==
    \/ SolveStart
    \/ RootIter
    \/ Enter
    \/ Branch
    \/ Return
    \/ SolveReturn


----------------------------------------------------------------------------
(* GRASP: construction and local search *)

\* "no seed": GRASPParameters.seed is None
NoSeed == -1

GRASPStatistics ==
    [total_iterations |-> 0, best_iteration |-> 0, improvements_found |-> 0,
     clique_sizes_history |-> <<>>]

\* self.adjacency_dict[v]
adjacency_dict(v) == neighbors(v)

\* the effective degree of a candidate among the candidates
CandidateDegree(candidates, candidate) ==
    Cardinality({other \in SeqToSet(candidates) :
                    other # candidate /\ candidate \in adjacency_dict(other)})

\* candidate_degrees before it is sorted: the pairs (candidate, degree)
RECURSIVE DegreePairs(_, _)
DegreePairs(candidates, todo) ==
    IF todo = <<>> THEN <<>>
    ELSE <<<<Head(todo), CandidateDegree(candidates, Head(todo))>>>>
         \o DegreePairs(candidates, Tail(todo))

\* the candidates of the sorted pairs whose degree reaches the threshold
\* worst_value + alpha * (best_value - worst_value); the product is a float,
\* and for alpha = p/q with q up to 20 the test degree >= threshold differs
\* from the test on the exact product only when best_value - worst_value is
\* 42 or more
RclOf(candidate_degrees, best_value, worst_value) ==
    LET kept == SelectSeq(candidate_degrees,
                    LAMBDA cd :
                        IF best_value = worst_value
                        THEN cd[2] >= best_value
                        ELSE cd[2] * params.alpha_den
                               >= worst_value * params.alpha_den
                                  + params.alpha_num * (best_value - worst_value))
    IN  Firsts(kept)

\* candidate_degrees.sort(key=lambda x: x[1], reverse=True)
SortedDegrees(candidates) ==
    SortByKeyDesc(<<>>, DegreePairs(candidates, candidates))

\* the list with best_value and worst_value read at the ends of the pairs as
\* they come, not of the sorted pairs
RclFromUnsortedEnds(candidates) ==
    IF candidates = <<>> THEN <<>>
    ELSE RclOf(DegreePairs(candidates, candidates),
               DegreePairs(candidates, candidates)[1][2],
               DegreePairs(candidates, candidates)[Len(candidates)][2])

_build_restricted_candidate_list(candidates) ==
    IF candidates = <<>> THEN <<>>
    ELSE RclOf(SortedDegrees(candidates),
               SortedDegrees(candidates)[1][2],
               SortedDegrees(candidates)[Len(candidates)][2])

\* the valid candidates above the vertex selected last only
LargerValidCandidates(clique, candidates) ==
    IF clique = <<>> THEN SortAsc(candidates)
    ELSE SelectSeq(SortAsc(candidates),
            LAMBDA c : /\ c > clique[Len(clique)]
                       /\ \A i \in DOMAIN clique :
                              c \in adjacency_dict(clique[i]))

\* the candidates of _greedy_randomized_construction that keep the clique
valid_candidates(clique, candidates) ==
    IF clique = <<>> THEN SortAsc(candidates)
    ELSE SelectSeq(SortAsc(candidates),
            LAMBDA c : \A i \in DOMAIN clique : c \in adjacency_dict(clique[i]))

\* random.choice(seq) on generator state r, and the state it leaves
RandomChoice(seq, r) == seq[(r % Len(seq)) + 1]

RandomNext(r) == (5 * r + 3) % RngMod

\* random.seed(seed)
RandomSeed(seed) == seed % RngMod

_is_valid_clique(vertices) ==
    IF Len(vertices) <= 1 THEN TRUE
    ELSE \A i \in DOMAIN vertices : \A j \in DOMAIN vertices :
            i < j => vertices[j] \in adjacency_dict(vertices[i])

\* ADD without its adjacency test: the first vertex outside the clique is taken
AddAnyCandidate(clique) ==
    LET candidates == SortAsc(V \ SeqToSet(clique))
    IN  IF candidates # <<>> THEN Append(clique, candidates[1]) ELSE clique

_local_search_add(clique) ==
    LET candidates == SortAsc(V \ SeqToSet(clique))
        ok == SelectSeq(candidates,
                 LAMBDA c : \A i \in DOMAIN clique : c \in adjacency_dict(clique[i]))
    IN  IF ok # <<>> THEN Append(clique, ok[1]) ELSE clique

_local_search_swap(clique) ==
    IF Len(clique) <= 1 THEN clique
    ELSE LET non_clique == SortAsc(V \ SeqToSet(clique))
             Swapped(o, n) ==
                 [k \in DOMAIN clique |->
                     IF clique[k] # clique[o] THEN clique[k] ELSE non_clique[n]]
             hits == {<<o, n>> \in (DOMAIN clique) \X (DOMAIN non_clique) :
                         _is_valid_clique(Swapped(o, n))}
         IN  IF hits = {} THEN clique
             ELSE LET first == CHOOSE h \in hits : \A g \in hits :
                                  h[1] < g[1] \/ (h[1] = g[1] /\ h[2] <= g[2])
                  IN  Swapped(first[1], first[2])

\* the while loop of _greedy_expansion
RECURSIVE _greedy_expansion(_)
_greedy_expansion(current_clique) ==
    LET candidates == V \ SeqToSet(current_clique)
        fits == {c \in candidates :
                    \A i \in DOMAIN current_clique :
                        c \in adjacency_dict(current_clique[i])}
        Deg(c) == Cardinality({other \in candidates :
                                  other # c /\ c \in adjacency_dict(other)})
    IN  IF fits = {} THEN current_clique
        ELSE LET best_candidate ==
                     CHOOSE c \in fits : \A d \in fits :
                         Deg(c) > Deg(d) \/ (Deg(c) = Deg(d) /\ c <= d)
             IN  _greedy_expansion(Append(current_clique, best_candidate))

\* the for loop of _local_search_remove_add over the vertices to remove
RECURSIVE RemoveAddLoop(_, _, _)
RemoveAddLoop(clique, k, best_clique) ==
    IF k > Len(clique) THEN best_clique
    ELSE LET reduced_clique  == Remove(clique, clique[k])
             expanded_clique == _greedy_expansion(reduced_clique)
         IN  IF Len(expanded_clique) > Len(best_clique)
             THEN RemoveAddLoop(clique, k + 1, expanded_clique)
             ELSE RemoveAddLoop(clique, k + 1, best_clique)

_local_search_remove_add(clique) ==
    IF Len(clique) <= 1 THEN clique ELSE RemoveAddLoop(clique, 1, clique)

\* a pass of the while loop that takes the result of SWAP whenever it differs
CycleAcceptsSwap(current_clique) ==
    LET added   == _local_search_add(current_clique)
        swapped == _local_search_swap(current_clique)
        readded == _local_search_remove_add(current_clique)
    IN  IF Len(added) > Len(current_clique)
        THEN [clique |-> added, improvement_found |-> TRUE]
        ELSE IF swapped # current_clique
        THEN [clique |-> swapped, improvement_found |-> TRUE]
        ELSE IF Len(readded) > Len(current_clique)
        THEN [clique |-> readded, improvement_found |-> TRUE]
        ELSE [clique |-> current_clique, improvement_found |-> FALSE]

\* one pass of the while loop of _local_search from current_clique:
\* the clique it leaves and improvement_found
LocalSearchCycle(current_clique) ==
    LET added   == _local_search_add(current_clique)
        swapped == _local_search_swap(current_clique)
        readded == _local_search_remove_add(current_clique)
    IN  IF Len(added) > Len(current_clique)
        THEN [clique |-> added, improvement_found |-> TRUE]
        ELSE IF Len(swapped) > Len(current_clique)
        THEN [clique |-> swapped, improvement_found |-> TRUE]
        ELSE IF Len(readded) > Len(current_clique)
        THEN [clique |-> readded, improvement_found |-> TRUE]
        ELSE [clique |-> current_clique, improvement_found |-> FALSE]

_should_continue(iteration, last_improvement) ==
    /\ ~(iteration >= params.max_iterations)
    /\ ~expired
    /\ ~(iteration - last_improvement >= params.max_no_improvement)

----------------------------------------------------------------------------
(* GRASP: the instances and their solve *)

Instances == DOMAIN grasp

NoInstance ==
    [pc |-> "off", best_clique |-> <<>>, best_clique_size |-> 0,
     stats |-> GRASPStatistics, iteration |-> 0, last_improvement |-> 0,
     clique |-> <<>>, candidates |-> {}, current_clique |-> <<>>,
     improvement_found |-> FALSE, intensity |-> 0,
     result |-> [clique |-> <<>>, size |-> 0, stats |-> GRASPStatistics]]

\* GRASPMaximumClique.__init__; the instances are numbered in the order of
\* their creation
GraspNew(i) ==
    /\ active = <<"none">>
    /\ grasp[i].pc = "off"
    /\ \A j \in Instances : j < i => grasp[j].pc # "off"
    /\ rng' = IF params.seed # NoSeed THEN RandomSeed(params.seed) ELSE rng
    /\ grasp' = [grasp EXCEPT ![i].pc = "new"]
    /\ trace' = Append(trace, <<"new", i>>)
    /\ UNCHANGED <<sat, graph, xvars, expired, params, active>>

\* solve() up to its while loop
GraspSolveStart(i) ==
    /\ active = <<"none">>
    /\ grasp[i].pc = "new"
    /\ active' = <<"grasp", i>>
    /\ expired' = FALSE
    /\ grasp' = [grasp EXCEPT ![i].pc = "iter",
                              ![i].iteration = 0,
                              ![i].last_improvement = 0]
    /\ trace' = Append(trace, <<"solve", i>>)
    /\ UNCHANGED <<sat, graph, xvars, params, rng>>

\* the while loop of solve() starts an iteration
GraspIter(i) ==
    /\ grasp[i].pc = "iter"
    /\ _should_continue(grasp[i].iteration, grasp[i].last_improvement)
    /\ grasp' = [grasp EXCEPT ![i].pc = "construct",
                              ![i].iteration = @ + 1,
                              ![i].clique = <<>>,
                              ![i].candidates = V]
    /\ UNCHANGED <<sat, graph, xvars, expired, params, rng, active, trace>>

\* one pass of the while loop of _greedy_randomized_construction; when the
\* loop ends the clique goes to _local_search
ConstructStep(i) ==
    /\ grasp[i].pc = "construct"
    /\ LET g     == grasp[i]
           valid == valid_candidates(g.clique, g.candidates)
           rcl   == _build_restricted_candidate_list(valid)
           selected == RandomChoice(rcl, rng)
       IN  IF g.candidates = {} \/ valid = <<>> \/ rcl = <<>>
           THEN /\ grasp' = [grasp EXCEPT ![i].pc = "local",
                                          ![i].current_clique = g.clique,
                                          ![i].improvement_found = TRUE,
                                          ![i].intensity = 0]
                /\ rng' = rng
           ELSE /\ grasp' = [grasp EXCEPT
                                ![i].clique = Append(g.clique, selected),
                                ![i].candidates =
                                    (g.candidates \ {selected})
                                        \cap adjacency_dict(selected)]
                /\ rng' = RandomNext(rng)
    /\ UNCHANGED <<sat, graph, xvars, expired, params, active, trace>>

\* one pass of the while loop of _local_search
LocalSearchStep(i) ==
    /\ grasp[i].pc = "local"
    /\ grasp[i].improvement_found
    /\ grasp[i].intensity < params.local_search_intensity
    /\ LET r == LocalSearchCycle(grasp[i].current_clique)
       IN  grasp' = [grasp EXCEPT ![i].current_clique = r.clique,
                                  ![i].improvement_found = r.improvement_found,
                                  ![i].intensity = @ + 1]
    /\ UNCHANGED <<sat, graph, xvars, expired, params, rng, active, trace>>

\* _local_search, called on its own, returns current_clique
LocalSearchReturn(i) ==
    /\ active = <<"none">>
    /\ grasp[i].pc = "local"
    /\ ~(grasp[i].improvement_found
         /\ grasp[i].intensity < params.local_search_intensity)
    /\ grasp' = [grasp EXCEPT ![i].pc = "returned",
                              ![i].result.clique = grasp[i].current_clique,
                              ![i].result.size = Len(grasp[i].current_clique)]
    /\ UNCHANGED <<sat, graph, xvars, expired, params, rng, active, trace>>

\* _local_search returns and solve() updates the best solution
IterEnd(i) ==
    /\ grasp[i].pc = "local"
    /\ ~(grasp[i].improvement_found
         /\ grasp[i].intensity < params.local_search_intensity)
    /\ LET g == grasp[i]
           improved_clique == g.current_clique
           better == Len(improved_clique) > g.best_clique_size
           st == [g.stats EXCEPT
                     !.clique_sizes_history = Append(@, Len(improved_clique))]
       IN  grasp' = [grasp EXCEPT ![i] =
              [g EXCEPT !.pc = "iter",
                        !.best_clique = IF better THEN improved_clique ELSE @,
                        !.best_clique_size =
                            IF better THEN Len(improved_clique) ELSE @,
                        !.last_improvement =
                            IF better THEN g.iteration ELSE @,
                        !.stats =
                            IF better
                            THEN [st EXCEPT !.best_iteration = g.iteration,
                                            !.improvements_found = @ + 1]
                            ELSE st]]
    /\ UNCHANGED <<sat, graph, xvars, expired, params, rng, active, trace>>

\* the while loop of solve() ends and solve() returns
GraspReturn(i) ==
    /\ grasp[i].pc = "iter"
    /\ ~_should_continue(grasp[i].iteration, grasp[i].last_improvement)
    /\ LET g  == grasp[i]
           st == [g.stats EXCEPT !.total_iterations = g.iteration]
       IN  grasp' = [grasp EXCEPT ![i] =
              [g EXCEPT !.pc = "done",
                        !.stats = st,
                        !.result = [clique |-> g.best_clique,
                                    size |-> g.best_clique_size,
                                    stats |-> st]]]
    /\ active' = <<"none">>
    /\ UNCHANGED <<sat, graph, xvars, expired, params, rng, trace>>

\* KeyboardInterrupt raised inside the try block of solve(): the handler
\* lets solve() go on to its final statistics and return
Interrupt(i) ==
    /\ active = <<"grasp", i>>
    /\ grasp[i].pc \in {"iter", "construct", "local"}
    /\ LET g  == grasp[i]
           st == [g.stats EXCEPT !.total_iterations = g.iteration]
       IN  grasp' = [grasp EXCEPT ![i] =
              [g EXCEPT !.pc = "done",
                        !.stats = st,
                        !.result = [clique |-> g.best_clique,
                                    size |-> g.best_clique_size,
                                    stats |-> st]]]
    /\ active' = <<"none">>
    /\ UNCHANGED <<sat, graph, xvars, expired, params, rng, trace>>

GraspStep ==
    \/ \E i \in Instances : GraspNew(i)
    \/ \E i \in Instances : GraspSolveStart(i)
    \/ \E i \in Instances : GraspIter(i)
    \/ \E i \in Instances : ConstructStep(i)
    \/ \E i \in Instances : LocalSearchStep(i)
    \/ \E i \in Instances : IterEnd(i)
    \/ \E i \in Instances : GraspReturn(i)

----------------------------------------------------------------------------
(* CliSATSolver of clisat_algorithm.py: preprocessing and the start of solve *)

MaxPasses == 6  \* most passes of the preprocessing loop that are followed

NoSolver ==
    [pc |-> "off", removed |-> FALSE, passes |-> 0, best_clique |-> <<>>,
     best_size |-> 0, preprocessing_reductions |-> 0]

\* the scan of _greedy_initial_clique
RECURSIVE GreedyCliqueScan(_, _)
GreedyCliqueScan(todo, clique) ==
    IF todo = <<>> THEN clique
    ELSE LET v == Head(todo)
         IN  IF \A i \in DOMAIN clique : has_edge(v, clique[i])
             THEN GreedyCliqueScan(Tail(todo), Append(clique, v))
             ELSE GreedyCliqueScan(Tail(todo), clique)

\* CliSATSolver._greedy_initial_clique: the indices follow the sorted labels
_greedy_initial_clique ==
    GreedyCliqueScan(Firsts(SortByKeyDesc(<<>>, DegreeKeys(Sorted(graph.n)))),
                     <<>>)

\* solve() sets start_time and calls _preprocess_graph
SolverSolveStart ==
    /\ sat.pc = "new"
    /\ active = <<"none">>
    /\ active' = <<"sat">>
    /\ expired' = FALSE
    /\ sat' = [sat EXCEPT !.pc = "pre", !.removed = TRUE, !.passes = 0]
    /\ UNCHANGED <<graph, xvars, params, grasp, rng, trace>>

\* one pass of the while loop of _preprocess_graph; _remove_vertex changes
\* neither the graph nor degrees
PreprocessPass ==
    /\ sat.pc = "pre"
    /\ sat.removed
    /\ ~expired
    /\ sat.passes < MaxPasses
    /\ LET current_best ==
               IF sat.best_size >= Len(_greedy_initial_clique)
               THEN sat.best_size ELSE Len(_greedy_initial_clique)
       IN  sat' = [sat EXCEPT
                      !.removed = \E i \in V : degree(i) < current_best - 1,
                      !.passes = @ + 1]
    /\ UNCHANGED <<graph, xvars, expired, params, grasp, rng, active, trace>>

\* the while loop of _preprocess_graph ends; solve() takes the greedy clique
PreprocessReturn ==
    /\ sat.pc = "pre"
    /\ ~(sat.removed /\ ~expired)
    /\ sat' = [sat EXCEPT !.pc = "initial",
                          !.preprocessing_reductions = 0,
                          !.best_clique = _greedy_initial_clique,
                          !.best_size = Len(_greedy_initial_clique)]
    /\ UNCHANGED <<graph, xvars, expired, params, grasp, rng, active, trace>>

\* the time check of solve() before its main algorithm: return, or go on to
\* _branch_and_bound
SolverTimeCheck ==
    /\ sat.pc = "initial"
    /\ sat' = [sat EXCEPT !.pc = IF expired THEN "done" ELSE "bb"]
    /\ active' = IF expired THEN <<"none">> ELSE active
    /\ UNCHANGED <<graph, xvars, expired, params, grasp, rng, trace>>

SolverStep ==
    \/ SolverSolveStart
    \/ PreprocessPass
    \/ PreprocessReturn
    \/ SolverTimeCheck

----------------------------------------------------------------------------
(* Specifications *)

NoParams ==
    [alpha_num |-> 0, alpha_den |-> 1, max_iterations |-> 0,
     max_no_improvement |-> 0, local_search_intensity |-> 0, seed |-> NoSeed]

\* the configurations: alpha, the stagnation bound, the local search
\* intensity and the seed vary; max_iterations is the largest one modelled
GraspParams ==
    [alpha_num : 0..AlphaDen, alpha_den : {AlphaDen},
     max_iterations : {MaxIter}, max_no_improvement : 1..MaxIter,
     local_search_intensity : 1..MaxIntensity,
     seed : {NoSeed} \cup (0..MaxSeed)]

SortedGraphs == {g \in Graphs : g.order = Sorted(g.n)}

InitCliSAT(state) ==
    /\ xpc = state
    /\ max_clique = <<>>
    /\ lb = 0
    /\ stats = ZeroStats
    /\ coloring = <<>>
    /\ initial_ordering = <<>>
    /\ ri = 0
    /\ stack = <<>>
    /\ xresult = NoResult
    /\ warm = <<>>
    /\ earlier = <<>>

InitCommon ==
    /\ sat = NoSolver
    /\ expired = FALSE
    /\ active = <<"none">>
    /\ trace = <<>>

\* the exact solver alone
InitExact ==
    /\ graph \in ExactGraphs
    /\ InitCliSAT("new")
    /\ InitCommon
    /\ params = NoParams
    /\ grasp = <<>>
    /\ rng = 0

NextExact == ExactStep \/ Expire

Spec == InitExact /\ [][NextExact]_vars

\* solve() at the head of its root loop: the greedy clique is the incumbent
\* and the vertices are in COLOR-SORT order
InitRootLoop ==
    /\ graph \in ExactGraphs
    /\ xpc = "root"
    /\ max_clique = greedy_initial_solution
    /\ lb = Len(greedy_initial_solution)
    /\ initial_ordering = color_sort
    /\ ri = Len(greedy_initial_solution)
    /\ stats = ZeroStats
    /\ coloring = <<>>
    /\ stack = <<>>
    /\ xresult = NoResult
    /\ warm = <<>>
    /\ earlier = <<>>
    /\ expired = FALSE
    /\ active = <<"exact">>
    /\ trace = <<<<"solve", 0>>>>
    /\ params = NoParams
    /\ grasp = <<>>
    /\ rng = 0
    /\ sat = NoSolver

\* the root loop of solve() and the search under it
SearchStep ==
    \/ RootIter
    \/ Enter
    \/ Branch
    \/ Return
    \/ SolveReturn

\* the search of the exact solver with a time limit that is never reached;
\* solve() is one sequential call, so a step that can be taken is taken
SpecUnlimited == InitRootLoop /\ [][SearchStep]_vars /\ WF_vars(SearchStep)

\* the exact solver with a Boolean solver that may raise
NextSat == ExactStep \/ SatRaise

SpecSat == InitExact /\ [][NextSat]_vars

\* the exact solver with a caller that may install a starting incumbent
NextWarm == WarmStart \/ ExactStep \/ Expire

SpecWarm == InitExact /\ [][NextWarm]_vars

\* two CliSAT instances, one after the other, on the same graph and with a
\* time limit that is never reached
NextTwice == ExactStep \/ CliSATNew

SpecTwice == InitExact /\ [][NextTwice]_vars

\* instances GRASP instances sharing one parameter record
InitGraspWith(instances, graphs, configs) ==
    /\ graph \in graphs
    /\ InitCliSAT("off")
    /\ InitCommon
    /\ params \in configs
    /\ grasp = [i \in 1..instances |-> NoInstance]
    /\ IF params.seed = NoSeed THEN rng \in 0..MaxSeed ELSE rng = 0

NextGrasp == GraspStep \/ Expire

\* one GRASP instance
InitGrasp ==
    InitGraspWith(1, SortedGraphs, {c \in GraspParams : c.seed # NoSeed})

SpecGrasp == InitGrasp /\ [][NextGrasp]_vars

\* one GRASP instance whose solve may be interrupted from the keyboard
NextInterrupt ==
    \/ GraspStep
    \/ Expire
    \/ \E i \in Instances : Interrupt(i)

SpecInterrupt == InitGrasp /\ [][NextInterrupt]_vars

\* one CliSATSolver instance, from its solve() to the start of the main
\* algorithm
InitSolver ==
    /\ graph \in SortedGraphs
    /\ InitCliSAT("off")
    /\ expired = FALSE
    /\ active = <<"none">>
    /\ trace = <<>>
    /\ params = NoParams
    /\ grasp = <<>>
    /\ rng = 0
    /\ sat = [NoSolver EXCEPT !.pc = "new"]

NextSolver == SolverStep \/ Expire

SpecSolver == InitSolver /\ [][NextSolver]_vars

\* the cliques of the graph, as lists of up to MaxListLen vertices in any order
InputCliques ==
    {c \in UNION {[1..k -> V] : k \in 0..MaxListLen} :
        /\ \A a, b \in DOMAIN c : a # b => c[a] # c[b]
        /\ _is_valid_clique(c)}

\* _local_search called on its own on a clique of the graph
InitLocal ==
    /\ graph \in SortedGraphs
    /\ InitCliSAT("off")
    /\ InitCommon
    /\ params \in {c \in GraspParams :
                      /\ c.seed = 0 /\ c.alpha_num = 0
                      /\ c.max_no_improvement = 1}
    /\ rng = 0
    /\ \E initial_clique \in InputCliques :
          grasp = <<[NoInstance EXCEPT !.pc = "local",
                                       !.clique = initial_clique,
                                       !.current_clique = initial_clique,
                                       !.improvement_found = TRUE,
                                       !.intensity = 0]>>

NextLocal ==
    \/ \E i \in Instances : LocalSearchStep(i)
    \/ \E i \in Instances : LocalSearchReturn(i)

SpecLocal == InitLocal /\ [][NextLocal]_vars

\* two GRASP instances created with the same parameters in one process
InitPair ==
    InitGraspWith(2, SortedGraphs,
        {c \in GraspParams : /\ c.max_no_improvement = MaxIter
                             /\ c.local_search_intensity = MaxIntensity})

\* the time limit is not reached
NextPair == GraspStep

SpecPair == InitPair /\ [][NextPair]_vars

\* a GRASP instance and the exact solver on the same graph
InitBoth ==
    /\ graph \in Graphs
    /\ InitCliSAT("new")
    /\ InitCommon
    /\ params \in {c \in GraspParams : /\ c.max_no_improvement = MaxIter
                                       /\ c.local_search_intensity = MaxIntensity
                                       /\ c.seed # NoSeed}
    /\ grasp = <<NoInstance>>
    /\ rng = 0

NextBoth == GraspStep \/ ExactStep \/ Expire

SpecBoth == InitBoth /\ [][NextBoth]_vars

----------------------------------------------------------------------------
(* Properties *)

\* is_clique(G, K): the vertices of the list are distinct and pairwise adjacent
IsClique(K) ==
    /\ \A i, j \in DOMAIN K : i # j => K[i] # K[j]
    /\ \A i, j \in DOMAIN K : i < j => has_edge(K[i], K[j])

\* the clique number of the graph
Omega ==
    LET cliques == {S \in SUBSET V : \A u, v \in S : u # v => has_edge(u, v)}
    IN  CHOOSE k \in 0..graph.n :
            /\ \E S \in cliques : Cardinality(S) = k
            /\ \A S \in cliques : Cardinality(S) <= k

\* the cliques of the graph, each as an increasing list
CliqueLists ==
    {SortAsc(S) : S \in {T \in SUBSET V :
                            \A u, v \in T : u # v => has_edge(u, v)}}

\* a set of vertices that are pairwise adjacent
IsCliqueSet(S) == \A u, v \in S : u # v => has_edge(u, v)

\* the lists of vertices of the graph handed to the validators
VertexLists == UNION {[1..k -> V] : k \in 0..MaxListLen}

\* the rearrangements of a list
Shuffles(L) ==
    {[i \in DOMAIN L |-> L[p[i]]] : p \in Permutations(DOMAIN L)}

\* first-fit colouring with at most k classes: the vertices are taken in
\* the order of todo, each goes to the first class in which it has no
\* neighbour, to a new class if there is none and fewer than k classes
\* exist, and stays uncoloured otherwise
RECURSIVE FirstFit(_, _, _)
FirstFit(todo, classes, k) ==
    IF todo = <<>> THEN classes
    ELSE LET v    == Head(todo)
             fits == {c \in DOMAIN classes :
                         \A i \in DOMAIN classes[c] :
                             ~has_edge(v, classes[c][i])}
         IN  IF fits # {}
             THEN LET c == CHOOSE d \in fits : \A e \in fits : d <= e
                  IN  FirstFit(Tail(todo),
                               [classes EXCEPT ![c] = Append(@, v)], k)
             ELSE IF Len(classes) < k
             THEN FirstFit(Tail(todo), Append(classes, <<v>>), k)
             ELSE FirstFit(Tail(todo), classes, k)

\* the list keeps the relative order its vertices have in COLOR-SORT
InColorSortOrder(list) ==
    \A i, j \in DOMAIN list :
        i < j => Pos(initial_ordering, list[i]) < Pos(initial_ordering, list[j])

\* the scan of greedy_initial_solution visits, from the moment the clique
\* has four vertices, the vertices not yet scanned in the order of the
\* re-sorted list
RECURSIVE VisitsFollowResort(_, _, _)
VisitsFollowResort(todo, clique, vertices) ==
    IF todo = <<>> THEN TRUE
    ELSE LET v == Head(todo)
             r == GreedyScan(<<v>>, clique, vertices)
         IN  /\ Len(r.clique) > 3 /\ r.clique # clique =>
                   Tail(todo) = SelectSeq(r.vertices,
                                          LAMBDA x : Contains(Tail(todo), x))
             /\ VisitsFollowResort(Tail(todo), r.clique, r.vertices)

\* the restricted candidate list of a set of valid candidates is that of
\* the threshold d_min + alpha * (d_max - d_min) on the degrees among the
\* candidates; it is not empty and holds the candidates of largest degree
RclAsSpecified(Valid) ==
    LET d(v)  == Cardinality({u \in Valid : u # v /\ has_edge(u, v)})
        d_max == CHOOSE m \in {d(v) : v \in Valid} :
                     \A v \in Valid : d(v) <= m
        d_min == CHOOSE m \in {d(v) : v \in Valid} :
                     \A v \in Valid : d(v) >= m
        rcl   == _build_restricted_candidate_list(SortAsc(Valid))
    IN  /\ SeqToSet(rcl) =
               {v \in Valid :
                   d(v) * params.alpha_den >=
                       d_min * params.alpha_den
                       + params.alpha_num * (d_max - d_min)}
        /\ Len(rcl) = Cardinality(SeqToSet(rcl))
        /\ rcl # <<>>
        /\ {v \in Valid : d(v) = d_max} \subseteq SeqToSet(rcl)

\* C1: when CliSAT.solve() runs to completion without the time limit being
\* passed, the returned size is the clique number of the graph.
C1_OptimalOnCompletion ==
    (xpc = "done" /\ ~xresult.expired) => xresult.size = Omega

\* C2: at every return of CliSAT.solve(), completed or timed out, whatever the
\* labels and the insertion order of the nodes, the returned list holds
\* distinct pairwise adjacent vertices and the returned size is its length.
C2_ResultIsClique ==
    xpc = "done" =>
        /\ IsClique(xresult.clique)
        /\ xresult.size = Len(xresult.clique)

\* C3: in every state of a GRASP solve and at its return best_clique is a
\* list of distinct pairwise adjacent vertices and best_clique_size is its
\* length, for every alpha, seed and stopping configuration; the clique under
\* construction and the clique of the local search are cliques, and ADD, SWAP
\* and REMOVE-ADD turn every clique of the graph into a clique.
C3_GraspCliquesValid ==
    \A i \in Instances :
        LET g == grasp[i]
        IN  /\ IsClique(g.best_clique)
            /\ g.best_clique_size = Len(g.best_clique)
            /\ g.pc = "done" => /\ IsClique(g.result.clique)
                                /\ g.result.size = Len(g.result.clique)
                                /\ g.result.clique = g.best_clique
            /\ IsClique(g.clique)
            /\ IsClique(g.current_clique)
            /\ g.pc = "local" =>
                  /\ IsClique(_local_search_add(g.current_clique))
                  /\ IsClique(_local_search_swap(g.current_clique))
                  /\ IsClique(_local_search_remove_add(g.current_clique))
            /\ g.pc = "new" =>
                  \A K \in CliqueLists :
                      /\ IsClique(_local_search_add(K))
                      /\ IsClique(_local_search_swap(K))
                      /\ IsClique(_local_search_remove_add(K))

\* a local search is at a clique that SWAP changes, an earlier iteration
\* having left a best clique of two vertices or more
C3_Witness ==
    \E i \in Instances :
        /\ grasp[i].pc = "local"
        /\ grasp[i].best_clique_size >= 2
        /\ Len(grasp[i].current_clique) >= 2
        /\ _local_search_swap(grasp[i].current_clique) # grasp[i].current_clique

\* C4: when the exact solve completes without the time limit being passed,
\* its size is at least the size the GRASP solve returns on the same graph,
\* for every GRASP configuration and seed.
C4_ExactAtLeastGrasp ==
    (xpc = "done" /\ ~xresult.expired /\ grasp[1].pc = "done") =>
        xresult.size >= grasp[1].result.size

\* C5: on the graph of a triangle {1,2,3}, a K4 {4,5,6,7} and the edge (3,4),
\* built as create_test_graphs builds it, the exact solve run to completion
\* returns size 4 and a clique inside {4,5,6,7}.
C5_TwoCliques ==
    (graph = two_cliques /\ xpc = "done" /\ ~xresult.expired) =>
        /\ xresult.size = 4
        /\ SeqToSet(xresult.clique) \subseteq {4, 5, 6, 7}

\* C6: from the moment the greedy clique is installed, every step of an exact
\* solve leaves lb equal to len(max_clique), max_clique a valid clique and lb
\* not smaller than before; no step of a GRASP solve decreases
\* best_clique_size.
C6_MonotoneIncumbent ==
    [][/\ xpc' \in {"root", "search", "done"} =>
            /\ lb' = Len(max_clique')
            /\ IsClique(max_clique')
            /\ xpc # "new" => lb' >= lb
       /\ \A i \in Instances :
            grasp'[i].best_clique_size >= grasp[i].best_clique_size]_vars

\* C7: when a valid clique K was installed as max_clique with lb = |K| before
\* solve() was called, the size solve() returns is at least |K|.
C7_WarmStartDominance ==
    (xpc = "done" /\ warm # <<>>) => xresult.size >= Len(warm)

\* C8: two runs of the exact solver on the same graph, stopped by no time
\* limit, return the same clique and the same statistics counters.
C8_ExactRunsAgree ==
    (xpc = "done" /\ earlier # <<>>) =>
        /\ xresult.clique = earlier[1].clique
        /\ xresult.size = earlier[1].size
        /\ xresult.stats = earlier[1].stats

\* C9: two GRASP instances created with the same seed on the same graph
\* return the same clique under every interleaving of their constructor and
\* solve calls.
C9_SolveOwnsItsRng ==
    (params.seed # NoSeed /\ grasp[1].pc = "done" /\ grasp[2].pc = "done") =>
        grasp[1].result.clique = grasp[2].result.clique

\* C10: with alpha = 0 every restricted candidate list built during the
\* construction holds exactly one vertex.
C10_AlphaZeroSingleton ==
    \A i \in Instances :
        (params.alpha_num = 0 /\ grasp[i].pc = "construct") =>
            LET valid == valid_candidates(grasp[i].clique, grasp[i].candidates)
            IN  valid # <<>> =>
                    Len(_build_restricted_candidate_list(valid)) = 1

\* C11: once a time check of the exact solver has seen the limit passed, no
\* step of the solve enters a recursion frame, makes a SAT call or changes
\* the incumbent, and solve() returns the incumbent held at that moment.
C11_NoWorkAfterTimeout ==
    [][(expired /\ active = <<"exact">>) =>
          /\ Len(stack') <= Len(stack)
          /\ stats'.sat_calls = stats.sat_calls
          /\ max_clique' = max_clique
          /\ lb' = lb
          /\ xpc' = "done" => /\ xresult'.clique = max_clique
                              /\ xresult'.size = lb]_vars

\* a solve cut by its time limit inside the search, after SAT calls, has
\* returned
C11_Witness ==
    /\ xpc = "done"
    /\ xresult.timeout
    /\ xresult.stats.sat_calls > 0
    /\ xresult.stats.nodes_explored > 1

\* C12: an exact solve that ends because the time limit was exceeded returns
\* statistics with nodes_explored >= 1.
C12_TimeoutExploresANode ==
    (xpc = "done" /\ xresult.timeout) => xresult.stats.nodes_explored >= 1

\* C13: a failure of the Boolean solver during an is_failed_literal call is
\* absorbed at that call: the search goes on and no exception reaches the
\* caller of solve().
C13_SatFailureAbsorbed == xpc # "raised"

\* C14: at every frame of find_max_clique, with P the pruned set computed
\* for the frame, no clique made of K_hat and vertices of P is larger than
\* the incumbent.
C14_PrunedSetSound ==
    [][(/\ xpc = "search"
        /\ Top.stage = "entry"
        /\ ~_time_exceeded
        /\ stats'.nodes_explored = stats.nodes_explored + 1) =>
          LET K_hat == SeqToSet(Top.K)
              P == SeqToSet(compute_pruned_and_branching_sets(
                                Top.G, Top.K, Top.lbarg).P)
          IN  \A Q \in SUBSET P :
                  IsCliqueSet(K_hat \cup Q) =>
                      Cardinality(K_hat \cup Q) <= lb']_vars

\* a frame whose pruned set holds two adjacent vertices that form a clique
\* with K_hat
C14_Witness ==
    \E j \in DOMAIN stack :
        /\ stack[j].stage = "loop"
        /\ \E u, v \in SeqToSet(stack[j].P) :
              /\ u # v
              /\ IsCliqueSet(SeqToSet(stack[j].K) \cup {u, v})

\* C15: the clique validators give the same answer for every rearrangement
\* of a list of vertices, accept the empty list and every single vertex,
\* accept a longer list exactly when the vertices at every two positions are
\* adjacent, and verify_clique, _is_valid_clique and validate_clique agree.
C15_ValidatorsAgree ==
    xpc \in {"new", "done"} =>
        \A L \in VertexLists \cup {xresult.clique} :
            /\ \A M \in Shuffles(L) : verify_clique(M) = verify_clique(L)
            /\ Len(L) <= 1 => verify_clique(L)
            /\ Len(L) > 1 =>
                  (verify_clique(L) <=>
                      \A i, j \in DOMAIN L : i # j => {L[i], L[j]} \in graph.E)
            /\ _is_valid_clique(L) = verify_clique(L)
            /\ validate_clique(L) = verify_clique(L)

\* solve() has returned three vertices or more, which the validator accepts
\* in the order returned and in the opposite order, while it rejects a list
\* of two vertices
C15_Witness ==
    /\ xpc = "done"
    /\ Len(xresult.clique) >= 3
    /\ verify_clique(xresult.clique)
    /\ verify_clique([i \in DOMAIN xresult.clique |->
                         xresult.clique[Len(xresult.clique) + 1 - i]])
    /\ \E L \in VertexLists : Len(L) = 2 /\ L[1] # L[2] /\ ~validate_clique(L)

\* C16: in the branch loop, a child (b, V_child) is discarded without
\* recursion only if no clique made of K_hat, b and vertices of V_child is
\* larger than the incumbent.
C16_DiscardedChildSound ==
    [][(/\ xpc = "search"
        /\ Top.stage = "loop"
        /\ Len(stack') = Len(stack)
        /\ stats'.pruned_by_bound = stats.pruned_by_bound + 1) =>
          LET b  == Top.B[Top.bi]
              Kb == SeqToSet(Top.K) \cup {b}
          IN  \A Q \in SUBSET SeqToSet(V_child(Top, b)) :
                  IsCliqueSet(Kb \cup Q) => Cardinality(Kb \cup Q) <= lb]_vars

\* C17: at every call of find_max_clique(G_hat, K_hat, lb), K_hat is a
\* clique of the input graph and every vertex of G_hat is adjacent to every
\* vertex of K_hat; the adjacency-matrix lookup through node_to_index agrees
\* with has_edge for every pair of vertices.
C17_CallInvariant ==
    /\ \A j \in DOMAIN stack :
          /\ IsClique(stack[j].K)
          /\ \A v \in stack[j].G : \A i \in DOMAIN stack[j].K :
                has_edge(v, stack[j].K[i])
    /\ \A u, v \in V :
          (adj_matrix(node_to_index(u), node_to_index(v)) = 1) <=> has_edge(u, v)

\* C18: iseq_coloring(G, k) returns at most max(k, 0) non-empty, pairwise
\* disjoint independent classes of vertices of G; it is the first-fit
\* colouring in iteration order, and colours every vertex when first-fit
\* needs at most k classes.
C18_IseqIsFirstFit ==
    \A G \in SUBSET V : \A k \in (-1)..(graph.n + 1) :
        LET col  == iseq_coloring(G, k)
            flat == Flatten(col)
        IN  /\ Len(col) <= (IF k > 0 THEN k ELSE 0)
            /\ \A c \in DOMAIN col : col[c] # <<>>
            /\ \A i, j \in DOMAIN flat : i # j => flat[i] # flat[j]
            /\ \A c \in DOMAIN col : \A i, j \in DOMAIN col[c] :
                  ~has_edge(col[c][i], col[c][j])
            /\ SeqToSet(flat) \subseteq G
            /\ col = FirstFit(Nodes(G), <<>>, k)
            /\ Len(FirstFit(Nodes(G), <<>>, graph.n)) <= k =>
                  SeqToSet(flat) = G

\* a frame of the search whose colouring has two classes and has left a
\* vertex uncoloured
C18_Witness ==
    \E j \in DOMAIN stack :
        LET f   == stack[j]
            col == iseq_coloring(f.G, f.lbarg - Len(f.K))
        IN  /\ f.stage = "loop"
            /\ Len(col) >= 2
            /\ SeqToSet(Flatten(col)) # f.G

\* C19: the candidate set of the child of a branch vertex b is made of the
\* vertices of P adjacent to b and of the vertices of B adjacent to b that
\* precede b in the COLOR-SORT order (by rank in that order, not by vertex
\* identifier).
C19_ChildCandidates ==
    [][(/\ xpc = "search"
        /\ Top.stage = "loop"
        /\ Len(stack') >= Len(stack)
        /\ stack'[Len(stack)].bi = Top.bi + 1) =>
          LET b == Top.B[Top.bi]
          IN  SeqToSet(V_child(Top, b)) =
                  {v \in SeqToSet(Top.P) : has_edge(b, v)}
                  \cup {v \in SeqToSet(Top.B) :
                          /\ has_edge(b, v)
                          /\ Pos(initial_ordering, v)
                                 < Pos(initial_ordering, b)}]_vars

\* C20: every ISEQ call visits the vertices of its input set in the
\* COLOR-SORT order, the branch loop visits B in that order, and the
\* vertices of each colour class appear in that order.
C20_ColorSortOrderKept ==
    \A j \in DOMAIN stack :
        /\ InColorSortOrder(Nodes(stack[j].G))
        /\ stack[j].stage = "loop" =>
              /\ InColorSortOrder(stack[j].B)
              /\ LET col == iseq_coloring(stack[j].G,
                                          stack[j].lbarg - Len(stack[j].K))
                 IN  \A c \in DOMAIN col : InColorSortOrder(col[c])

\* C21: whenever filtcol takes a reference colouring from the cache, the
\* colouring belongs to a subgraph with the vertex set of G_sub: every vertex
\* of its classes is in G_sub and P_filt is what a fresh ISEQ colouring of
\* G_sub would colour.
C21_CacheEntryOwnSubgraph ==
    [][(/\ xpc = "search"
        /\ Top.stage = "loop"
        /\ stats'.filter_phase_calls = stats.filter_phase_calls + 1) =>
          LET G_sub == SeqToSet(V_child(Top, Top.B[Top.bi]))
              reference_coloring == coloring'[stack'[Len(stack)].cid]
          IN  /\ SeqToSet(Flatten(reference_coloring)) \subseteq G_sub
              /\ SeqToSet(filtcol(G_sub, reference_coloring)) =
                     SeqToSet(Flatten(NewReference(G_sub)))]_vars

\* C22: for every colouring produced by iseq_coloring and every vertex v the
\* CNF of build_pmax_sat for coloring ++ [[v]] is satisfiable, so
\* is_failed_literal is False on every call and satcol and filtsat return as
\* B exactly the vertices the colouring left uncoloured.
C22_NoFailedLiteral ==
    /\ xpc = "new" =>
          \A G \in SUBSET V : \A k \in 0..graph.n :
              LET col == iseq_coloring(G, k)
                  uncoloured ==
                      SelectSeq(Nodes(G),
                                LAMBDA v : ~Contains(Flatten(col), v))
              IN  /\ \A v \in G : /\ SatSolve(build_pmax_sat(col \o <<<<v>>>>))
                                  /\ ~is_failed_literal(v, col)
                  /\ satcol(G, col).B = uncoloured
                  /\ filter_phase(G, col).B = uncoloured
    /\ \A j \in DOMAIN stack :
          stack[j].stage = "loop" =>
              SeqToSet(stack[j].B) =
                  stack[j].G \ SeqToSet(Flatten(
                      iseq_coloring(stack[j].G,
                                    stack[j].lbarg - Len(stack[j].K))))

\* a frame of the search whose branching set is not empty after SAT calls
\* on its vertices
C22_Witness ==
    /\ xpc = "search"
    /\ Top.stage = "loop"
    /\ Top.B # <<>>
    /\ Top.P # <<>>
    /\ stats.sat_calls >= Len(Top.B)

\* C23: greedy_initial_solution scans the vertices by decreasing degree, and
\* once the clique has four vertices it visits the vertices not yet scanned
\* in the re-sorted order; the clique returned is valid and maximal.
C23_GreedyResortedScan ==
    xpc = "new" =>
        /\ VisitsFollowResort(ByDegree, <<>>, ByDegree)
        /\ IsClique(greedy_initial_solution)
        /\ ~\E x \in V \ SeqToSet(greedy_initial_solution) :
              \A i \in DOMAIN greedy_initial_solution :
                  has_edge(x, greedy_initial_solution[i])

C25_ConstructionMaximal ==
    \A i \in Instances :
        (grasp[i].pc = "local" /\ grasp[i].intensity = 0) =>
            LET clique == grasp[i].current_clique
            IN  /\ IsClique(clique)
                /\ ~\E x \in V \ SeqToSet(clique) :
                      \A j \in DOMAIN clique : has_edge(x, clique[j])
                /\ _local_search_add(clique) = clique
                /\ Len(clique) >= 1

\* a construction that made random choices among several candidates has
\* returned a clique of two vertices or more that is not a largest one
C25_Witness ==
    \E i \in Instances :
        /\ grasp[i].pc = "local"
        /\ grasp[i].intensity = 0
        /\ params.alpha_num < params.alpha_den
        /\ Len(grasp[i].current_clique) >= 2
        /\ Len(grasp[i].current_clique) < Omega

\* C26: when ADD finds nothing and SWAP finds a valid exchange of a vertex of
\* the clique for one outside it, the cycle of the local search leaves the
\* swapped clique as the current clique.
C26_SwapMovesSearch ==
    [][\A i \in Instances :
          LET K       == grasp[i].current_clique
              swapped == _local_search_swap(K)
          IN  (/\ grasp[i].pc = "local"
               /\ grasp'[i].intensity = grasp[i].intensity + 1
               /\ _local_search_add(K) = K
               /\ swapped # K
               /\ _is_valid_clique(swapped))
                  => grasp'[i].current_clique = swapped]_vars

StrictIncreases(history) ==
    Cardinality({k \in DOMAIN history :
                    /\ history[k] > 0
                    /\ \A j \in 1..(k - 1) : history[j] < history[k]})

\* the statistics of a solve that has returned, as C28 states them
AtReturn(g) ==
    /\ g.stats.total_iterations <= params.max_iterations
    /\ g.stats.total_iterations - g.stats.best_iteration
           <= params.max_no_improvement
    /\ Len(g.stats.clique_sizes_history) = g.stats.total_iterations
    /\ g.stats.improvements_found = StrictIncreases(g.stats.clique_sizes_history)

\* C28: an iteration starts only below the three limits; the best clique is
\* replaced only by a strictly larger one, which makes the iteration the last
\* improvement, and is kept otherwise; at return total_iterations is at most
\* max_iterations, at most max_no_improvement iterations lie after
\* best_iteration, the size history has total_iterations entries and
\* improvements_found counts the strict increases of the best size.
C28_CoordinatorCounts ==
    [][\A i \in Instances :
          LET g == grasp[i]
              h == grasp'[i]
          IN  /\ h.iteration = g.iteration + 1 =>
                    /\ g.iteration < params.max_iterations
                    /\ ~expired
                    /\ g.iteration - g.last_improvement
                           < params.max_no_improvement
              /\ h.best_clique # g.best_clique =>
                    /\ Len(h.best_clique) > Len(g.best_clique)
                    /\ h.last_improvement = g.iteration
              /\ (g.pc = "local" /\ h.pc = "iter"
                  /\ h.best_clique = g.best_clique) =>
                    h.last_improvement = g.last_improvement
              /\ (g.pc # "done" /\ h.pc = "done") => AtReturn(h)]_vars

\* C29: with a time limit that is never reached solve() returns; every
\* recursive call of find_max_clique gets a candidate set strictly inside
\* that of its caller and without the branching vertex, and the recursion is
\* never deeper than the number of vertices.
C29_SolveTerminates ==
    /\ [][(xpc = "search" /\ Len(stack') = Len(stack) + 1) =>
             /\ stack'[Len(stack')].G \subseteq Top.G
             /\ stack'[Len(stack')].G # Top.G
             /\ Top.B[Top.bi] \notin stack'[Len(stack')].G]_vars
    /\ [](Len(stack) <= graph.n)
    /\ <>(xpc = "done")

\* a recursive call made from inside find_max_clique is running and the time
\* limit has not been reached
C29_Witness ==
    /\ xpc = "search"
    /\ ~expired
    /\ Len(stack) >= 2
    /\ stack[2].G # {}
    /\ stack[2].stage = "loop"

\* C30: the preprocessing loop of CliSATSolver ends by itself, after at most
\* one pass for each vertex and a last pass that removes nothing; when it has
\* ended with the time limit not reached no vertex has a degree below
\* best - 1 and solve() goes on to its branch and bound.
C30_PreprocessFixedPoint ==
    [][/\ sat'.passes <= graph.n + 1
       /\ (sat.pc = "pre" /\ sat'.pc # "pre" /\ ~expired) =>
             \A v \in V : degree(v) >= sat'.best_size - 1
       /\ (sat.pc = "initial" /\ sat'.pc # "initial" /\ ~expired) =>
             sat'.pc = "bb"]_vars

====
